---- MODULE Spec2Model ----
(***************************************************************************)
(* Activity-triggered dual-stream recorder: the pre-roll ring buffer       *)
(* (src/src/audio/circular_buffer.py), the activity detector               *)
(* (src/src/audio/activity_detector.py) and the recording engine           *)
(* AutoAudioRecorder (src/src/audio/auto_recorder.py).                     *)
(*                                                                         *)
(* Time is counted in whole seconds (time.time() and datetime.now() read   *)
(* the same clock, the variable now).  A sample is an amplitude in         *)
(* thousandths of full scale, so volume_threshold 0.015 is 15.             *)
(***************************************************************************)
EXTENDS Integers, Sequences, FiniteSets, TLC

VARIABLES
    now,                    \* the wall clock
    \* ---- CircularBuffer under test (SpecBuffer) and the engine's two buffers
    mic_buffer,             \* [max_samples, buffer]
    system_buffer,          \* [max_samples, buffer]
    buffer_args,            \* the constructor arguments <<duration in half seconds, sample_rate>>
    written,                \* history: every sample written to mic_buffer since construction
    read_result,            \* what the last read_all() of mic_buffer returned
    \* ---- AudioActivityDetector
    activity_detector,      \* [mic_active_start, system_active_start, last_activity_time, call_start_time]
    det_call,               \* the detector call made by the last step and what it returned
    earliest_active,        \* history: time of the earliest active frame since the timers were last cleared
    \* ---- AutoAudioRecorder
    state,                  \* RecordingState
    is_monitoring,
    recording_mic_data,
    recording_system_data,
    recording_start_time,
    mic_stream,             \* TRUE while the stream object exists and runs
    system_stream,
    files,                  \* the output directory: a set of [name, data]
    processing_queue,       \* AudioPostProcessor.processing_queue
    pc,                     \* control point of each thread
    call_duration,          \* _stop_recording's local, per thread
    frame,                  \* the frame each capture callback is handling
    delivered,              \* number of frames each stream has delivered
    starts,                 \* number of start_monitoring() calls made
    episode,                \* history of the current Recording episode
    \* ---- concurrent start_monitoring() calls (SpecStart)
    mic_device,             \* set_devices(): a device id or None
    system_device,
    caller,                 \* control point of each calling thread
    ret,                    \* what each caller's last start_monitoring() returned, and why
    calls,                  \* number of start_monitoring() calls made by the callers
    stream_pairs,           \* pairs of InputStreams started and never stopped
    polling_loops,          \* _monitor_loop threads alive
    \* ---- functions of the post-processor applied to given arguments
    args,                   \* the arguments (SpecMerge, SpecName)
    result,                 \* what the function returned, <<>> before the call
    \* ---- AudioPostProcessor (SpecPost); its queue and the output directory
    \* are processing_queue and files above
    is_running,
    worker,                 \* the worker thread: [pc, session_data, merged_file]
    stopper,                \* control point of the thread calling stop()
    post_config,            \* keep_original, upload.enabled, upload.auto_delete
    uploads,                \* history: the upload_files() calls, <<file, outcome>>
    processed,              \* history: the items the worker finished, [id, outcome, mic_file, system_file]
    submitted,              \* number of submit_recording() calls made
    \* ---- AutoAudioRecorder.call_info (SpecInfo)
    recorder_call_info,     \* self.call_info: what set_call_info() stored last
    info_at_start           \* history: self.call_info when the session entered Recording

vars == <<now, mic_buffer, system_buffer, buffer_args, written, read_result,
          activity_detector, det_call, earliest_active,
          state, is_monitoring, recording_mic_data, recording_system_data,
          recording_start_time, mic_stream, system_stream, files,
          processing_queue, pc, call_duration, frame, delivered, starts, episode,
          mic_device, system_device, caller, ret, calls, stream_pairs, polling_loops,
          args, result,
          is_running, worker, stopper, post_config, uploads, processed, submitted,
          recorder_call_info, info_at_start>>

startVars == <<mic_device, system_device, caller, ret, calls, stream_pairs, polling_loops>>
\* what the buffer, the detector and the single-caller engine never touch
pureVars == <<args, result>>
postVars == <<is_running, worker, stopper, post_config, uploads, processed, submitted>>
infoVars == <<recorder_call_info, info_at_start>>
restVars == <<startVars, pureVars, postVars, infoVars>>
bufVars == <<mic_buffer, system_buffer, buffer_args, written, read_result>>
detVars == <<activity_detector, det_call, earliest_active>>
engVars == <<state, is_monitoring, recording_mic_data, recording_system_data,
             recording_start_time, mic_stream, system_stream, files,
             processing_queue, pc, call_duration, frame, delivered, starts, episode>>

\* Python's None, for the timestamps
None == -1

Max(a, b) == IF a >= b THEN a ELSE b
Min(a, b) == IF a <= b THEN a ELSE b

SeqsUpTo(S, n) == UNION {[1..k -> S] : k \in 0..n}

\* the last n elements of s
LastN(s, n) == SubSeq(s, Len(s) - n + 1, Len(s))

(***************************************************************************)
(* CircularBuffer                                                          *)
(***************************************************************************)

\* int(duration_seconds * sample_rate), the duration given in half seconds:
\* int() truncates toward zero
CircularBuffer(duration_halves, sample_rate) ==
    [max_samples |-> (duration_halves * sample_rate) \div 2, buffer |-> <<>>]

\* deque(maxlen).append(x): a full deque drops its leftmost item; maxlen 0 keeps nothing
DequeAppendDropNewest(buffer, x, maxlen) ==
    IF Len(buffer) >= maxlen THEN buffer ELSE Append(buffer, x)

DequeAppend(buffer, x, maxlen) ==
    IF maxlen = 0 THEN <<>>
    ELSE IF Len(buffer) = maxlen THEN Append(Tail(buffer), x)
    ELSE Append(buffer, x)

\* deque(maxlen).extend(data): append the items one by one
RECURSIVE DequeExtend(_, _, _)
DequeExtend(buffer, data, maxlen) ==
    IF data = <<>> THEN buffer
    ELSE DequeExtend(DequeAppend(buffer, Head(data), maxlen), Tail(data), maxlen)

\* CircularBuffer.write
write(buf, data) == [buf EXCEPT !.buffer = DequeExtend(@, data, buf.max_samples)]

\* CircularBuffer.read_all: a copy of the contents, oldest first; the buffer is kept
read_all(buf) == buf.buffer

\* CircularBuffer.clear
clear(buf) == [buf EXCEPT !.buffer = <<>>]

(***************************************************************************)
(* AudioActivityDetector                                                   *)
(***************************************************************************)
volume_threshold == 15
\* the defaults of config.get(...)
default_start_duration == 3
default_end_silence_duration == 12
default_min_call_duration == 5
\* the trailing silence after which should_start_recording() clears the timers
reset_silence == 5

\* dict.get(key, default)
Get(config, key, default) == IF key \in DOMAIN config THEN config[key] ELSE default

\* AudioActivityDetector.__init__
AudioActivityDetector(config) ==
    [start_duration |-> Get(config, "start_duration", default_start_duration),
     end_silence_duration |-> Get(config, "end_silence_duration", default_end_silence_duration),
     min_call_duration |-> Get(config, "min_call_duration", default_min_call_duration),
     mic_active_start |-> None, system_active_start |-> None,
     last_activity_time |-> None, call_start_time |-> None]

RECURSIVE SumSq(_)
SumSq(audio_data) ==
    IF audio_data = <<>> THEN 0
    ELSE Head(audio_data) * Head(audio_data) + SumSq(Tail(audio_data))

\* rms = sqrt(mean(x^2)) > volume_threshold, squared on both sides
detect_activity(audio_data) ==
    /\ Len(audio_data) # 0
    /\ SumSq(audio_data) > volume_threshold * volume_threshold * Len(audio_data)

update_mic_activity(d, audio_data, current_time) ==
    IF detect_activity(audio_data)
    THEN [d EXCEPT !.mic_active_start = IF @ = None THEN current_time ELSE @,
                   !.last_activity_time = current_time]
    ELSE d

update_system_activity(d, audio_data, current_time) ==
    IF detect_activity(audio_data)
    THEN [d EXCEPT !.system_active_start = IF @ = None THEN current_time ELSE @,
                   !.last_activity_time = current_time]
    ELSE d

\* should_start_recording, its effect on the detector: the timers are cleared
\* after more than reset_silence seconds without an active frame
should_start_reset(d, current_time) ==
    IF /\ d.last_activity_time # None
       /\ current_time - d.last_activity_time > reset_silence
    THEN [d EXCEPT !.mic_active_start = None, !.system_active_start = None]
    ELSE d

\* the mutant: both streams must have been active for start_duration
should_start_both(d, current_time) ==
    LET r == should_start_reset(d, current_time)
        mic_active_duration ==
            IF r.mic_active_start # None THEN current_time - r.mic_active_start ELSE 0
        system_active_duration ==
            IF r.system_active_start # None THEN current_time - r.system_active_start ELSE 0
    IN  Min(mic_active_duration, system_active_duration) >= d.start_duration

\* should_start_recording, its return value
should_start_recording(d, current_time) ==
    LET r == should_start_reset(d, current_time)
        mic_active_duration ==
            IF r.mic_active_start # None THEN current_time - r.mic_active_start ELSE 0
        system_active_duration ==
            IF r.system_active_start # None THEN current_time - r.system_active_start ELSE 0
    IN  Max(mic_active_duration, system_active_duration) >= d.start_duration

\* the mutant: the call's length alone decides
should_stop_ignoring_silence(d, current_time) ==
    /\ d.last_activity_time # None
    /\ d.call_start_time # None
    /\ current_time - d.call_start_time >= d.min_call_duration

should_stop_recording(d, current_time) ==
    IF d.last_activity_time = None THEN FALSE
    ELSE IF current_time - d.last_activity_time >= d.end_silence_duration
         THEN IF d.call_start_time # None
              THEN current_time - d.call_start_time >= d.min_call_duration
              ELSE FALSE
         ELSE FALSE

start_call(d, current_time) == [d EXCEPT !.call_start_time = current_time]

\* end_call, its return value
end_call_duration(d, current_time) ==
    IF d.call_start_time = None THEN 0 ELSE current_time - d.call_start_time

\* end_call, its effect on the detector
end_call(d) ==
    IF d.call_start_time = None THEN d
    ELSE [d EXCEPT !.call_start_time = None, !.mic_active_start = None,
                   !.system_active_start = None, !.last_activity_time = None]

(***************************************************************************)
(* Bounds of the model                                                     *)
(***************************************************************************)
\* SpecBuffer: total samples written between two clears, longest write
MaxWritten == 5
MaxChunk == 3
\* the clock stops here
MaxTime == 13

\* SpecBuffer: constructor arguments tried (durations in half seconds)
BufDurations == {1, 3}
BufRates == {1, 2}
BufSamples == {0, 50}

\* SpecDetector: the frames handed to update_*_activity
AudioFrames == {<<>>, <<0>>, <<15>>, <<16>>, <<50>>, <<0, 50>>}

\* the engine's settings: audio.sample_rate and auto_recording.buffer_duration
\* (in half seconds), one sample per frame
sample_rate == 1
buffer_duration_halves == 4

Threads == {"mon", "ctl", "mic", "sys"}

(***************************************************************************)
(* Initial values                                                          *)
(***************************************************************************)
NoCall == [op |-> "none", bool |-> FALSE, num |-> 0]

\* settings.auto_recording of the engine runs: a configuration file with short
\* durations; the detector of SpecDetector is built from an empty one, so on
\* the defaults
auto_config ==
    [start_duration |-> 1, min_call_duration |-> 2, end_silence_duration |-> 3]

NoConfig == [k \in {} |-> 0]

DetInit(config) ==
    /\ activity_detector = AudioActivityDetector(config)
    /\ det_call = NoCall
    /\ earliest_active = None

\* AutoAudioRecorder.__init__
EngInit ==
    /\ state = "idle"
    /\ is_monitoring = FALSE
    /\ recording_mic_data = <<>>
    /\ recording_system_data = <<>>
    /\ recording_start_time = None
    /\ mic_stream = FALSE
    /\ system_stream = FALSE
    /\ files = {}
    /\ processing_queue = <<>>
    /\ pc = [t \in Threads |-> IF t = "mon" THEN "none" ELSE "idle"]
    /\ call_duration = [t \in {"mon", "ctl"} |-> 0]
    /\ frame = [t \in {"mic", "sys"} |-> <<>>]
    /\ delivered = [t \in {"mic", "sys"} |-> 0]
    /\ starts = 0
    /\ episode = [open |-> FALSE, stop_runs |-> 0, end_calls |-> 0, saved |-> 0, discarded |-> 0]

BufIdle ==
    /\ mic_buffer = CircularBuffer(buffer_duration_halves, sample_rate)
    /\ system_buffer = CircularBuffer(buffer_duration_halves, sample_rate)
    /\ buffer_args = <<buffer_duration_halves, sample_rate>>
    /\ written = <<>>
    /\ read_result = <<>>

Callers == {"ui1", "ui2"}
NoReturn == [value |-> FALSE, why |-> "none"]

\* set_devices() not called yet, no start_monitoring() call in progress
StartIdle ==
    /\ mic_device = None
    /\ system_device = None
    /\ caller = [c \in Callers |-> "idle"]
    /\ ret = [c \in Callers |-> NoReturn]
    /\ calls = 0
    /\ stream_pairs = 0
    /\ polling_loops = 0

PureIdle ==
    /\ args = <<>>
    /\ result = <<>>

NoFile == <<>>
NoSession == [id |-> 0, mic_file |-> NoFile, system_file |-> NoFile,
              call_info |-> [agent_phone |-> <<>>, customer_name |-> <<>>, customer_id |-> <<>>]]
WorkerNone == [pc |-> "none", session_data |-> NoSession, merged_file |-> NoFile]
DefaultPostConfig == [keep_original |-> FALSE, upload_enabled |-> FALSE, auto_delete |-> FALSE]

\* AudioPostProcessor.__init__: not running, no worker thread
PostIdle ==
    /\ is_running = FALSE
    /\ worker = WorkerNone
    /\ stopper = "idle"
    /\ post_config = DefaultPostConfig
    /\ uploads = <<>>
    /\ processed = <<>>
    /\ submitted = 0

\* self.call_info = {}: every get() of a field gives nothing
NoInfo == [agent_phone |-> <<>>, customer_name |-> <<>>, customer_id |-> <<>>]

InfoIdle ==
    /\ recorder_call_info = NoInfo
    /\ info_at_start = NoInfo

RestIdle == StartIdle /\ PureIdle /\ PostIdle /\ InfoIdle

(***************************************************************************)
(* SpecBuffer: one CircularBuffer, any sequence of write/read_all/clear    *)
(***************************************************************************)
InitBuffer ==
    /\ now = 0
    /\ \E dh \in BufDurations, sr \in BufRates :
          /\ mic_buffer = CircularBuffer(dh, sr)
          /\ buffer_args = <<dh, sr>>
    /\ system_buffer = CircularBuffer(buffer_duration_halves, sample_rate)
    /\ written = <<>>
    /\ read_result = <<>>
    /\ DetInit(NoConfig)
    /\ EngInit
    /\ RestIdle

BufWrite ==
    /\ \E data \in SeqsUpTo(BufSamples, MaxChunk) :
          /\ Len(written) + Len(data) <= MaxWritten
          /\ mic_buffer' = write(mic_buffer, data)
          /\ written' = written \o data
    /\ UNCHANGED <<restVars, now, system_buffer, buffer_args, read_result, detVars, engVars>>

BufReadAll ==
    /\ read_result' = read_all(mic_buffer)
    /\ UNCHANGED <<restVars, now, mic_buffer, system_buffer, buffer_args, written, detVars, engVars>>

BufClear ==
    /\ mic_buffer' = clear(mic_buffer)
    /\ written' = <<>>
    /\ UNCHANGED <<restVars, now, system_buffer, buffer_args, read_result, detVars, engVars>>

NextBuffer == BufWrite \/ BufReadAll \/ BufClear

SpecBuffer == InitBuffer /\ [][NextBuffer]_vars

(***************************************************************************)
(* SpecDetector: one AudioActivityDetector, its methods called in any      *)
(* order while the clock advances                                          *)
(***************************************************************************)
InitDetector ==
    /\ now = 0
    /\ BufIdle
    /\ DetInit(NoConfig)
    /\ EngInit
    /\ RestIdle

\* the timers of both streams are clear
TimersClear(d) == d.mic_active_start = None /\ d.system_active_start = None

\* earliest_active after a step that leaves the detector as d: the time of the
\* first active frame since the timers were last cleared
Earliest(d, active) ==
    IF TimersClear(d) THEN None
    ELSE IF earliest_active = None /\ active THEN now
    ELSE earliest_active

Tick ==
    /\ now < MaxTime
    /\ now' = now + 1
    /\ det_call' = NoCall
    /\ UNCHANGED <<restVars, bufVars, activity_detector, earliest_active, engVars>>

DetUpdateMic ==
    /\ \E audio_data \in AudioFrames :
          /\ activity_detector' = update_mic_activity(activity_detector, audio_data, now)
          /\ det_call' = [op |-> "update_mic_activity",
                          bool |-> detect_activity(audio_data), num |-> 0]
          /\ earliest_active' = Earliest(activity_detector', detect_activity(audio_data))
    /\ UNCHANGED <<restVars, now, bufVars, engVars>>

DetUpdateSystem ==
    /\ \E audio_data \in AudioFrames :
          /\ activity_detector' = update_system_activity(activity_detector, audio_data, now)
          /\ det_call' = [op |-> "update_system_activity",
                          bool |-> detect_activity(audio_data), num |-> 0]
          /\ earliest_active' = Earliest(activity_detector', detect_activity(audio_data))
    /\ UNCHANGED <<restVars, now, bufVars, engVars>>

DetShouldStart ==
    /\ activity_detector' = should_start_reset(activity_detector, now)
    /\ det_call' = [op |-> "should_start_recording",
                    bool |-> should_start_recording(activity_detector, now), num |-> 0]
    /\ earliest_active' = Earliest(activity_detector', FALSE)
    /\ UNCHANGED <<restVars, now, bufVars, engVars>>

DetShouldStop ==
    /\ det_call' = [op |-> "should_stop_recording",
                    bool |-> should_stop_recording(activity_detector, now), num |-> 0]
    /\ UNCHANGED <<restVars, now, bufVars, activity_detector, earliest_active, engVars>>

DetStartCall ==
    /\ activity_detector' = start_call(activity_detector, now)
    /\ det_call' = [op |-> "start_call", bool |-> FALSE, num |-> 0]
    /\ UNCHANGED <<restVars, now, bufVars, earliest_active, engVars>>

DetEndCall ==
    /\ activity_detector' = end_call(activity_detector)
    /\ det_call' = [op |-> "end_call", bool |-> FALSE,
                    num |-> end_call_duration(activity_detector, now)]
    /\ earliest_active' = Earliest(activity_detector', FALSE)
    /\ UNCHANGED <<restVars, now, bufVars, engVars>>

NextDetector ==
    \/ Tick
    \/ DetUpdateMic
    \/ DetUpdateSystem
    \/ DetShouldStart
    \/ DetShouldStop
    \/ DetStartCall
    \/ DetEndCall

SpecDetector == InitDetector /\ [][NextDetector]_vars

(***************************************************************************)
(* AutoAudioRecorder.  Four threads: "ctl" calls start_monitoring() and    *)
(* stop_monitoring(), "mon" runs _monitor_loop, "mic" and "sys" run the    *)
(* two capture callbacks.  Every action is one step of one thread, so the  *)
(* threads interleave between the reads and writes of the shared fields.   *)
(* stop_monitoring()'s join is taken to wait for the loop to exit (the     *)
(* loop sleeps check_interval = 0.5 s, the join waits up to 5 s).          *)
(***************************************************************************)
\* frames the two streams deliver together, start_monitoring() calls made
MaxFrames == 2
MaxStarts == 2
\* the engine's clock stops here
MaxClock == 4

Streams == {"mic", "sys"}
Workers == {"mon", "ctl"}

\* where _stop_recording returns to
StopReturn(t) == IF t = "mon" THEN "sleep" ELSE "stop_mic_stream"

Goto(t, l) == pc' = [pc EXCEPT ![t] = l]

\* the k-th frame of a stream: one sample, quiet (amplitude k) or loud (50 + k)
FrameOf(k, loud) == IF loud THEN <<50 + k>> ELSE <<k>>

WriteFile(fs, name, data) ==
    {f \in fs : f.name # name} \cup {[name |-> name, data |-> data]}

NewEpisode == [open |-> TRUE, stop_runs |-> 0, end_calls |-> 0, saved |-> 0, discarded |-> 0]

InitEngine ==
    /\ now = 0
    /\ BufIdle
    /\ DetInit(auto_config)
    /\ EngInit
    /\ RestIdle

\* ---- the capture callbacks (mic_callback, system_callback)
CbWrite(s) ==
    /\ pc[s] = "idle"
    /\ IF s = "mic" THEN mic_stream ELSE system_stream
    /\ delivered["mic"] + delivered["sys"] < MaxFrames
    /\ \E loud \in BOOLEAN :
          LET audio_data == FrameOf(delivered[s] + 1, loud) IN
          /\ frame' = [frame EXCEPT ![s] = audio_data]
          /\ IF s = "mic"
             THEN mic_buffer' = write(mic_buffer, audio_data) /\ UNCHANGED system_buffer
             ELSE system_buffer' = write(system_buffer, audio_data) /\ UNCHANGED mic_buffer
    /\ delivered' = [delivered EXCEPT ![s] = @ + 1]
    /\ Goto(s, "append")
    /\ UNCHANGED <<restVars, now, buffer_args, written, read_result, detVars, state, is_monitoring,
                   recording_mic_data, recording_system_data, recording_start_time,
                   mic_stream, system_stream, files, processing_queue, call_duration,
                   starts, episode>>

\* the mutant: frames are kept while the session is being finalized too
CbAppendWhileStopping(s) ==
    /\ pc[s] = "append"
    /\ IF state \in {"recording", "stopping"}
       THEN IF s = "mic"
            THEN /\ recording_mic_data' = recording_mic_data \o frame[s]
                 /\ UNCHANGED recording_system_data
            ELSE /\ recording_system_data' = recording_system_data \o frame[s]
                 /\ UNCHANGED recording_mic_data
       ELSE UNCHANGED <<recording_mic_data, recording_system_data>>
    /\ activity_detector' =
          IF s = "mic" THEN update_mic_activity(activity_detector, frame[s], now)
          ELSE update_system_activity(activity_detector, frame[s], now)
    /\ frame' = [frame EXCEPT ![s] = <<>>]
    /\ Goto(s, "idle")
    /\ UNCHANGED <<restVars, now, bufVars, det_call, earliest_active, state, is_monitoring,
                   recording_start_time, mic_stream, system_stream, files,
                   processing_queue, call_duration, delivered, starts, episode>>

\* if self.state == RECORDING: extend the session data; then update the detector
CbAppend(s) ==
    /\ pc[s] = "append"
    /\ IF state = "recording"
       THEN IF s = "mic"
            THEN /\ recording_mic_data' = recording_mic_data \o frame[s]
                 /\ UNCHANGED recording_system_data
            ELSE /\ recording_system_data' = recording_system_data \o frame[s]
                 /\ UNCHANGED recording_mic_data
       ELSE UNCHANGED <<recording_mic_data, recording_system_data>>
    /\ activity_detector' =
          IF s = "mic" THEN update_mic_activity(activity_detector, frame[s], now)
          ELSE update_system_activity(activity_detector, frame[s], now)
    /\ frame' = [frame EXCEPT ![s] = <<>>]
    /\ Goto(s, "idle")
    /\ UNCHANGED <<restVars, now, bufVars, det_call, earliest_active, state, is_monitoring,
                   recording_start_time, mic_stream, system_stream, files,
                   processing_queue, call_duration, delivered, starts, episode>>

\* ---- _monitor_loop
\* while self.is_monitoring
MonLoop ==
    /\ pc["mon"] = "loop"
    /\ Goto("mon", IF is_monitoring THEN "check" ELSE "exited")
    /\ UNCHANGED <<restVars, now, bufVars, detVars, state, is_monitoring, recording_mic_data,
                   recording_system_data, recording_start_time, mic_stream, system_stream,
                   files, processing_queue, call_duration, frame, delivered, starts, episode>>

\* if self.state == MONITORING: should_start_recording()
MonCheckStart ==
    /\ pc["mon"] = "check"
    /\ state = "monitoring"
    /\ activity_detector' = should_start_reset(activity_detector, now)
    /\ Goto("mon", IF should_start_recording(activity_detector, now)
                   THEN "sr_state" ELSE "sleep")
    /\ UNCHANGED <<restVars, now, bufVars, det_call, earliest_active, state, is_monitoring,
                   recording_mic_data, recording_system_data, recording_start_time,
                   mic_stream, system_stream, files, processing_queue, call_duration,
                   frame, delivered, starts, episode>>

\* elif self.state == RECORDING: should_stop_recording()
MonCheckStop ==
    /\ pc["mon"] = "check"
    /\ state = "recording"
    /\ Goto("mon", IF should_stop_recording(activity_detector, now)
                   THEN "stop_guard" ELSE "sleep")
    /\ UNCHANGED <<restVars, now, bufVars, detVars, state, is_monitoring, recording_mic_data,
                   recording_system_data, recording_start_time, mic_stream, system_stream,
                   files, processing_queue, call_duration, frame, delivered, starts, episode>>

\* neither branch: the state is STOPPING or IDLE
MonCheckOther ==
    /\ pc["mon"] = "check"
    /\ state \notin {"monitoring", "recording"}
    /\ Goto("mon", "sleep")
    /\ UNCHANGED <<restVars, now, bufVars, detVars, state, is_monitoring, recording_mic_data,
                   recording_system_data, recording_start_time, mic_stream, system_stream,
                   files, processing_queue, call_duration, frame, delivered, starts, episode>>

\* time.sleep(check_interval): the clock, read in whole seconds, has advanced
\* by one or has not.  The steps of the handlers take no time of their own.
MonSleep ==
    /\ pc["mon"] = "sleep"
    /\ \E d \in {0, 1} :
          /\ now + d <= MaxClock
          /\ now' = now + d
    /\ Goto("mon", "loop")
    /\ UNCHANGED <<restVars, bufVars, detVars, state, is_monitoring, recording_mic_data,
                   recording_system_data, recording_start_time, mic_stream, system_stream,
                   files, processing_queue, call_duration, frame, delivered, starts, episode>>

\* ---- _start_recording, called by the loop
StartRecState ==
    /\ pc["mon"] = "sr_state"
    /\ state' = "recording"
    /\ recording_start_time' = now
    /\ episode' = NewEpisode
    /\ Goto("mon", "sr_clear")
    /\ UNCHANGED <<restVars, now, bufVars, detVars, is_monitoring, recording_mic_data,
                   recording_system_data, mic_stream, system_stream, files,
                   processing_queue, call_duration, frame, delivered, starts>>

StartRecClear ==
    /\ pc["mon"] = "sr_clear"
    /\ recording_mic_data' = <<>>
    /\ recording_system_data' = <<>>
    /\ Goto("mon", "sr_seed_mic")
    /\ UNCHANGED <<restVars, now, bufVars, detVars, state, is_monitoring, recording_start_time,
                   mic_stream, system_stream, files, processing_queue, call_duration,
                   frame, delivered, starts, episode>>

\* the mutant: the mic session is seeded from the other stream's buffer
StartRecSeedMicFromSystem ==
    /\ pc["mon"] = "sr_seed_mic"
    /\ recording_mic_data' = recording_mic_data \o read_all(system_buffer)
    /\ Goto("mon", "sr_seed_sys")
    /\ UNCHANGED <<restVars, now, bufVars, detVars, state, is_monitoring, recording_system_data,
                   recording_start_time, mic_stream, system_stream, files,
                   processing_queue, call_duration, frame, delivered, starts, episode>>

StartRecSeedMic ==
    /\ pc["mon"] = "sr_seed_mic"
    /\ recording_mic_data' = recording_mic_data \o read_all(mic_buffer)
    /\ Goto("mon", "sr_seed_sys")
    /\ UNCHANGED <<restVars, now, bufVars, detVars, state, is_monitoring, recording_system_data,
                   recording_start_time, mic_stream, system_stream, files,
                   processing_queue, call_duration, frame, delivered, starts, episode>>

StartRecSeedSys ==
    /\ pc["mon"] = "sr_seed_sys"
    /\ recording_system_data' = recording_system_data \o read_all(system_buffer)
    /\ Goto("mon", "sr_start_call")
    /\ UNCHANGED <<restVars, now, bufVars, detVars, state, is_monitoring, recording_mic_data,
                   recording_start_time, mic_stream, system_stream, files,
                   processing_queue, call_duration, frame, delivered, starts, episode>>

StartRecCall ==
    /\ pc["mon"] = "sr_start_call"
    /\ activity_detector' = start_call(activity_detector, now)
    /\ Goto("mon", "sleep")
    /\ UNCHANGED <<restVars, now, bufVars, det_call, earliest_active, state, is_monitoring,
                   recording_mic_data, recording_system_data, recording_start_time,
                   mic_stream, system_stream, files, processing_queue, call_duration,
                   frame, delivered, starts, episode>>

\* ---- _stop_recording, called by the loop and by stop_monitoring()
\* if self.state != RECORDING: return
StopGuard(t) ==
    /\ pc[t] = "stop_guard"
    /\ Goto(t, IF state # "recording" THEN StopReturn(t) ELSE "stop_set")
    /\ UNCHANGED <<restVars, now, bufVars, detVars, state, is_monitoring, recording_mic_data,
                   recording_system_data, recording_start_time, mic_stream, system_stream,
                   files, processing_queue, call_duration, frame, delivered, starts, episode>>

\* self.state = STOPPING
StopSet(t) ==
    /\ pc[t] = "stop_set"
    /\ state' = "stopping"
    /\ episode' = [episode EXCEPT !.stop_runs = @ + 1]
    /\ Goto(t, "stop_end_call")
    /\ UNCHANGED <<restVars, now, bufVars, detVars, is_monitoring, recording_mic_data,
                   recording_system_data, recording_start_time, mic_stream, system_stream,
                   files, processing_queue, call_duration, frame, delivered, starts>>

\* call_duration = self.activity_detector.end_call()
StopEndCall(t) ==
    /\ pc[t] = "stop_end_call"
    /\ call_duration' = [call_duration EXCEPT ![t] = end_call_duration(activity_detector, now)]
    /\ activity_detector' = end_call(activity_detector)
    /\ episode' = [episode EXCEPT !.end_calls =
                      IF activity_detector.call_start_time # None THEN @ + 1 ELSE @]
    /\ Goto(t, "stop_check")
    /\ UNCHANGED <<restVars, now, bufVars, det_call, earliest_active, state, is_monitoring,
                   recording_mic_data, recording_system_data, recording_start_time,
                   mic_stream, system_stream, files, processing_queue, frame, delivered,
                   starts>>

\* the mutant: the minimum call duration is not checked
StopCheckNoMinimum(t) ==
    /\ pc[t] = "stop_check"
    /\ Goto(t, "save")
    /\ UNCHANGED <<restVars, now, bufVars, detVars, state, is_monitoring, recording_mic_data,
                   recording_system_data, recording_start_time, mic_stream, system_stream,
                   files, processing_queue, call_duration, frame, delivered, starts, episode>>

\* if call_duration < min_duration: discard, back to MONITORING, return
StopCheck(t) ==
    /\ pc[t] = "stop_check"
    /\ IF call_duration[t] < Get(auto_config, "min_call_duration", default_min_call_duration)
       THEN /\ state' = "monitoring"
            /\ episode' = [episode EXCEPT !.open = FALSE, !.discarded = @ + 1]
            /\ call_duration' = [call_duration EXCEPT ![t] = 0]
            /\ Goto(t, StopReturn(t))
       ELSE /\ Goto(t, "save")
            /\ UNCHANGED <<state, episode, call_duration>>
    /\ UNCHANGED <<restVars, now, bufVars, detVars, is_monitoring, recording_mic_data,
                   recording_system_data, recording_start_time, mic_stream, system_stream,
                   files, processing_queue, frame, delivered, starts>>

\* _save_recording: one file per stream that has data; nothing is handed to
\* the post-processor
SaveRecording(t) ==
    /\ pc[t] = "save"
    /\ IF recording_start_time = None
       THEN UNCHANGED files
       ELSE LET withMic ==
                    IF recording_mic_data # <<>>
                    THEN WriteFile(files, [kind |-> "mic", ts |-> recording_start_time],
                                   recording_mic_data)
                    ELSE files
            IN  files' =
                    IF recording_system_data # <<>>
                    THEN WriteFile(withMic, [kind |-> "system", ts |-> recording_start_time],
                                   recording_system_data)
                    ELSE withMic
    /\ episode' = [episode EXCEPT !.open = FALSE, !.saved = @ + 1]
    /\ Goto(t, "stop_done")
    /\ UNCHANGED <<restVars, now, bufVars, detVars, state, is_monitoring, recording_mic_data,
                   recording_system_data, recording_start_time, mic_stream, system_stream,
                   processing_queue, call_duration, frame, delivered, starts>>

\* self.state = MONITORING; return
StopDone(t) ==
    /\ pc[t] = "stop_done"
    /\ state' = "monitoring"
    /\ call_duration' = [call_duration EXCEPT ![t] = 0]
    /\ Goto(t, StopReturn(t))
    /\ UNCHANGED <<restVars, now, bufVars, detVars, is_monitoring, recording_mic_data,
                   recording_system_data, recording_start_time, mic_stream, system_stream,
                   files, processing_queue, frame, delivered, starts, episode>>

\* ---- start_monitoring()
\* already monitoring, or _validate_devices() fails: return False; otherwise
\* is_monitoring = True, state = MONITORING
StartMonitoring ==
    /\ pc["ctl"] = "idle"
    /\ starts < MaxStarts
    /\ starts' = starts + 1
    /\ IF is_monitoring
       THEN UNCHANGED <<is_monitoring, state, pc>>
       ELSE \E valid \in BOOLEAN :
               IF valid
               THEN /\ is_monitoring' = TRUE
                    /\ state' = "monitoring"
                    /\ Goto("ctl", "start_streams")
               ELSE UNCHANGED <<is_monitoring, state, pc>>
    /\ UNCHANGED <<restVars, now, bufVars, detVars, recording_mic_data, recording_system_data,
                   recording_start_time, mic_stream, system_stream, files,
                   processing_queue, call_duration, frame, delivered, episode>>

\* _start_audio_streams(): both streams are created and started
StartStreams ==
    /\ pc["ctl"] = "start_streams"
    /\ mic_stream' = TRUE
    /\ system_stream' = TRUE
    /\ Goto("ctl", "start_thread")
    /\ UNCHANGED <<restVars, now, bufVars, detVars, state, is_monitoring, recording_mic_data,
                   recording_system_data, recording_start_time, files, processing_queue,
                   call_duration, frame, delivered, starts, episode>>

\* _start_audio_streams() raises, at an InputStream constructor or at
\* mic_stream.start() (no stream runs) or at system_stream.start() (the mic
\* stream runs, and nothing stops it): is_monitoring = False, state = IDLE,
\* return False
StartStreamsFail ==
    /\ pc["ctl"] = "start_streams"
    /\ \E mic_started \in BOOLEAN : mic_stream' = (mic_stream \/ mic_started)
    /\ is_monitoring' = FALSE
    /\ state' = "idle"
    /\ Goto("ctl", "idle")
    /\ UNCHANGED <<restVars, now, bufVars, detVars, recording_mic_data, recording_system_data,
                   recording_start_time, system_stream, files,
                   processing_queue, call_duration, frame, delivered, starts, episode>>

\* self.monitor_thread.start(); return True
StartThread ==
    /\ pc["ctl"] = "start_thread"
    /\ pc' = [pc EXCEPT !["ctl"] = "idle", !["mon"] = "loop"]
    /\ UNCHANGED <<restVars, now, bufVars, detVars, state, is_monitoring, recording_mic_data,
                   recording_system_data, recording_start_time, mic_stream, system_stream,
                   files, processing_queue, call_duration, frame, delivered, starts, episode>>

\* ---- stop_monitoring()
\* if not self.is_monitoring: return; self.is_monitoring = False
StopMonitoring ==
    /\ pc["ctl"] = "idle"
    /\ is_monitoring
    /\ is_monitoring' = FALSE
    /\ Goto("ctl", "stop_state")
    /\ UNCHANGED <<restVars, now, bufVars, detVars, state, recording_mic_data, recording_system_data,
                   recording_start_time, mic_stream, system_stream, files,
                   processing_queue, call_duration, frame, delivered, starts, episode>>

\* if self.state == RECORDING: self._stop_recording()
StopMonitoringState ==
    /\ pc["ctl"] = "stop_state"
    /\ Goto("ctl", IF state = "recording" THEN "stop_guard" ELSE "stop_mic_stream")
    /\ UNCHANGED <<restVars, now, bufVars, detVars, state, is_monitoring, recording_mic_data,
                   recording_system_data, recording_start_time, mic_stream, system_stream,
                   files, processing_queue, call_duration, frame, delivered, starts, episode>>

\* _stop_audio_streams(): stop() returns once the stream's callback has finished
StopMicStream ==
    /\ pc["ctl"] = "stop_mic_stream"
    /\ pc["mic"] = "idle"
    /\ mic_stream' = FALSE
    /\ Goto("ctl", "stop_system_stream")
    /\ UNCHANGED <<restVars, now, bufVars, detVars, state, is_monitoring, recording_mic_data,
                   recording_system_data, recording_start_time, system_stream, files,
                   processing_queue, call_duration, frame, delivered, starts, episode>>

StopSystemStream ==
    /\ pc["ctl"] = "stop_system_stream"
    /\ pc["sys"] = "idle"
    /\ system_stream' = FALSE
    /\ Goto("ctl", "join")
    /\ UNCHANGED <<restVars, now, bufVars, detVars, state, is_monitoring, recording_mic_data,
                   recording_system_data, recording_start_time, mic_stream, files,
                   processing_queue, call_duration, frame, delivered, starts, episode>>

\* self.monitor_thread.join(); self.state = IDLE; return
StopMonitoringJoin ==
    /\ pc["ctl"] = "join"
    /\ pc["mon"] \in {"none", "exited"}
    /\ state' = "idle"
    /\ Goto("ctl", "idle")
    /\ UNCHANGED <<restVars, now, bufVars, detVars, is_monitoring, recording_mic_data,
                   recording_system_data, recording_start_time, mic_stream, system_stream,
                   files, processing_queue, call_duration, frame, delivered, starts, episode>>

Next ==
    \/ \E s \in Streams : CbWrite(s)
    \/ \E s \in Streams : CbAppend(s)
    \/ MonLoop
    \/ MonCheckStart
    \/ MonCheckStop
    \/ MonCheckOther
    \/ MonSleep
    \/ StartRecState
    \/ StartRecClear
    \/ StartRecSeedMic
    \/ StartRecSeedSys
    \/ StartRecCall
    \/ \E t \in Workers : StopGuard(t)
    \/ \E t \in Workers : StopSet(t)
    \/ \E t \in Workers : StopEndCall(t)
    \/ \E t \in Workers : StopCheck(t)
    \/ \E t \in Workers : SaveRecording(t)
    \/ \E t \in Workers : StopDone(t)
    \/ StartMonitoring
    \/ StartStreams
    \/ StartStreamsFail
    \/ StartThread
    \/ StopMonitoring
    \/ StopMonitoringState
    \/ StopMicStream
    \/ StopSystemStream
    \/ StopMonitoringJoin

Spec == InitEngine /\ [][Next]_vars

(***************************************************************************)
(* SpecFaults: the engine with an exception inside _stop_recording on the  *)
(* polling thread, which runs every step it can (weak fairness).           *)
(***************************************************************************)
\* _notify_status (the window's status callback) or os.makedirs raises inside
\* _stop_recording or _save_recording: lines 335, 355, 370, 343; the
\* exception leaves _stop_recording before self.state = MONITORING and is
\* caught by _monitor_loop's except, which logs it and sleeps
MonStopRaise ==
    /\ \/ pc["mon"] \in {"save", "stop_done"}
       \/ /\ pc["mon"] = "stop_check"
          /\ call_duration["mon"]
                < Get(auto_config, "min_call_duration", default_min_call_duration)
    /\ call_duration' = [call_duration EXCEPT !["mon"] = 0]
    /\ Goto("mon", "sleep")
    /\ UNCHANGED <<restVars, now, bufVars, detVars, state, is_monitoring, recording_mic_data,
                   recording_system_data, recording_start_time, mic_stream, system_stream,
                   files, processing_queue, frame, delivered, starts, episode>>

\* the steps of the polling thread
MonStep ==
    \/ MonLoop
    \/ MonCheckStart
    \/ MonCheckStop
    \/ MonCheckOther
    \/ MonSleep
    \/ StartRecState
    \/ StartRecClear
    \/ StartRecSeedMic
    \/ StartRecSeedSys
    \/ StartRecCall
    \/ StopGuard("mon")
    \/ StopSet("mon")
    \/ StopEndCall("mon")
    \/ StopCheck("mon")
    \/ SaveRecording("mon")
    \/ StopDone("mon")

NextFaults ==
    \/ Next
    \/ MonStopRaise

SpecFaults == InitEngine /\ [][NextFaults]_vars /\ WF_vars(MonStep)

(***************************************************************************)
(* SpecStart: start_monitoring() called from several threads.  The window  *)
(* starts every call on a thread of its own (unified_recorder_window.py,   *)
(* start_auto_monitoring), so two calls can be inside start_monitoring()   *)
(* together; each action is one statement of one call.                     *)
(***************************************************************************)
\* calls made in one run
MaxCalls == 3

\* sd.query_devices(): max_input_channels of device 0, 1; id 2 does not exist
devices == <<1, 0>>
DeviceIds == {None, 0, 1, 2}

\* one device test of _validate_devices: the id is in range and has inputs
device_ok(devs, device) ==
    \/ device = None
    \/ ~(device >= Len(devs) \/ devs[device + 1] = 0)

validate_mic_only(devs, mic, system, query_ok) ==
    query_ok /\ device_ok(devs, mic)

\* _validate_devices(); query_ok is FALSE when sd.query_devices() raises
validate_devices(devs, mic, system, query_ok) ==
    IF ~query_ok THEN FALSE
    ELSE IF ~device_ok(devs, mic) THEN FALSE
    ELSE IF ~device_ok(devs, system) THEN FALSE
    ELSE TRUE

Return(c, value, why) ==
    /\ ret' = [ret EXCEPT ![c] = [value |-> value, why |-> why]]
    /\ caller' = [caller EXCEPT ![c] = "idle"]

engStartVars == <<pureVars, postVars, infoVars, now, bufVars, detVars, recording_mic_data, recording_system_data,
                  recording_start_time, files, processing_queue, pc, call_duration,
                  frame, delivered, starts, episode>>

InitStart ==
    /\ now = 0
    /\ BufIdle
    /\ DetInit(auto_config)
    /\ EngInit
    /\ RestIdle

\* the window: set_devices(mic_id, system_id), then start_monitoring() on a new thread
StartCall(c) ==
    /\ caller[c] = "idle"
    /\ calls < MaxCalls
    /\ calls' = calls + 1
    /\ \E md \in DeviceIds, sd \in DeviceIds :
          /\ mic_device' = md
          /\ system_device' = sd
    /\ caller' = [caller EXCEPT ![c] = "check"]
    /\ ret' = [ret EXCEPT ![c] = NoReturn]
    /\ UNCHANGED <<engStartVars, state, is_monitoring, mic_stream, system_stream,
                   stream_pairs, polling_loops>>

\* if self.is_monitoring: return False
StartCheck(c) ==
    /\ caller[c] = "check"
    /\ IF is_monitoring
       THEN Return(c, FALSE, "busy")
       ELSE /\ caller' = [caller EXCEPT ![c] = "validate"]
            /\ UNCHANGED ret
    /\ UNCHANGED <<engStartVars, state, is_monitoring, mic_stream, system_stream,
                   mic_device, system_device, calls, stream_pairs, polling_loops>>

\* if not self._validate_devices(): return False
StartValidate(c) ==
    /\ caller[c] = "validate"
    /\ \E query_ok \in BOOLEAN :
          IF validate_devices(devices, mic_device, system_device, query_ok)
          THEN /\ caller' = [caller EXCEPT ![c] = "set"]
               /\ UNCHANGED ret
          ELSE Return(c, FALSE, IF query_ok THEN "invalid" ELSE "query")
    /\ UNCHANGED <<engStartVars, state, is_monitoring, mic_stream, system_stream,
                   mic_device, system_device, calls, stream_pairs, polling_loops>>

\* self.is_monitoring = True; self.state = MONITORING
StartSet(c) ==
    /\ caller[c] = "set"
    /\ is_monitoring' = TRUE
    /\ state' = "monitoring"
    /\ caller' = [caller EXCEPT ![c] = "streams"]
    /\ UNCHANGED <<engStartVars, mic_stream, system_stream, mic_device, system_device,
                   ret, calls, stream_pairs, polling_loops>>

\* self._start_audio_streams(): a new pair of InputStreams replaces the
\* references held in mic_stream and system_stream
StartOpen(c) ==
    /\ caller[c] = "streams"
    /\ mic_stream' = TRUE
    /\ system_stream' = TRUE
    /\ stream_pairs' = stream_pairs + 1
    /\ caller' = [caller EXCEPT ![c] = "spawn"]
    /\ UNCHANGED <<engStartVars, state, is_monitoring, mic_device, system_device,
                   ret, calls, polling_loops>>

\* _start_audio_streams() raises, with the mic stream started or not:
\* is_monitoring = False, state = IDLE, return False
StartOpenFail(c) ==
    /\ caller[c] = "streams"
    /\ \E mic_started \in BOOLEAN : mic_stream' = (mic_stream \/ mic_started)
    /\ is_monitoring' = FALSE
    /\ state' = "idle"
    /\ Return(c, FALSE, "failed")
    /\ UNCHANGED <<engStartVars, system_stream, mic_device, system_device,
                   calls, stream_pairs, polling_loops>>

\* self.monitor_thread = Thread(target=self._monitor_loop); start(); return True
StartSpawn(c) ==
    /\ caller[c] = "spawn"
    /\ polling_loops' = polling_loops + 1
    /\ Return(c, TRUE, "started")
    /\ UNCHANGED <<engStartVars, state, is_monitoring, mic_stream, system_stream,
                   mic_device, system_device, calls, stream_pairs>>

\* a polling loop finds is_monitoring False and leaves its while loop
LoopExit ==
    /\ polling_loops > 0
    /\ ~is_monitoring
    /\ polling_loops' = polling_loops - 1
    /\ UNCHANGED <<engStartVars, state, is_monitoring, mic_stream, system_stream,
                   mic_device, system_device, caller, ret, calls, stream_pairs>>

NextStart ==
    \/ \E c \in Callers : StartCall(c)
    \/ \E c \in Callers : StartCheck(c)
    \/ \E c \in Callers : StartValidate(c)
    \/ \E c \in Callers : StartSet(c)
    \/ \E c \in Callers : StartOpen(c)
    \/ \E c \in Callers : StartOpenFail(c)
    \/ \E c \in Callers : StartSpawn(c)
    \/ LoopExit

SpecStart == InitStart /\ [][NextStart]_vars

(***************************************************************************)
(* SpecMerge: lines 163-185 of AudioPostProcessor._merge_to_stereo applied *)
(* to two arrays as _read_audio_file returns them.  A float sample is      *)
(* written as the int16 value it was read from (the float times 32768).    *)
(***************************************************************************)
\* longest array merged
MaxMergeLen == 2
MergeSamples == {0, 5, -7}
\* what _read_audio_file returns: None, or the samples of the file
NoArray == [present |-> FALSE, samples |-> <<>>]
Array(samples) == [present |-> TRUE, samples |-> samples]
MergeArrays == {NoArray} \cup {Array(x) : x \in SeqsUpTo(MergeSamples, MaxMergeLen)}

engAll == <<now, bufVars, detVars, engVars, infoVars>>

\* np.zeros(n)
zeros(n) == [i \in 1..n |-> 0]

pad_front(data, max_length) == zeros(max_length - Len(data)) \o data

\* np.pad(data, (0, max_length - len(data))): zeros appended at the end
pad(data, max_length) == data \o zeros(max_length - Len(data))

\* one channel brought to max_length: zeros when the file could not be read
channel(data, max_length) ==
    IF ~data.present THEN zeros(max_length)
    ELSE IF Len(data.samples) < max_length THEN pad(data.samples, max_length)
    ELSE data.samples

\* np.column_stack((mic_data, system_data)), None when neither file was read
stereo_data(mic_data, system_data) ==
    IF ~mic_data.present /\ ~system_data.present THEN NoArray
    ELSE LET max_length ==
                 Max(IF mic_data.present THEN Len(mic_data.samples) ELSE 0,
                     IF system_data.present THEN Len(system_data.samples) ELSE 0)
             left == channel(mic_data, max_length)
             right == channel(system_data, max_length)
         IN  Array([i \in 1..max_length |-> <<left[i], right[i]>>])

InitMerge ==
    /\ now = 0
    /\ BufIdle
    /\ DetInit(NoConfig)
    /\ EngInit
    /\ StartIdle
    /\ PostIdle
    /\ InfoIdle
    /\ \E m \in MergeArrays, sy \in MergeArrays :
          args = [mic_data |-> m, system_data |-> sy]
    /\ result = <<>>

Merge ==
    /\ result = <<>>
    /\ result' = [stereo_data |-> stereo_data(args.mic_data, args.system_data)]
    /\ UNCHANGED <<engAll, startVars, postVars, args>>

NextMerge == Merge

SpecMerge == InitMerge /\ [][NextMerge]_vars

(***************************************************************************)
(* SpecName: the file names.  A name is the sequence of the pieces that    *)
(* '_' separates, without the ".wav" ending; a metadata value holding a    *)
(* '_' is two pieces.  "X_Y".split('_') is then the sequence itself.       *)
(***************************************************************************)
\* strftime("%Y%m%d_%H%M%S") of two session starts, and of the time of merging
Stamps == {<<"20240101", "120000">>, <<"20240102", "093000">>}
MergeStamp == <<"20240103", "000000">>
\* a metadata field: empty, one piece, or a value with a '_' in it
FieldValues == {<<>>, <<"13800">>, <<"Li", "Si">>}
CallInfos == [agent_phone : FieldValues, customer_name : FieldValues, customer_id : FieldValues]

\* the optional Agent / Customer / ID pieces, a field left out when empty
metadata_parts(call_info) ==
    (IF call_info.agent_phone # <<>> THEN <<"Agent">> \o call_info.agent_phone ELSE <<>>)
    \o (IF call_info.customer_name # <<>> THEN <<"Customer">> \o call_info.customer_name ELSE <<>>)
    \o (IF call_info.customer_id # <<>> THEN <<"ID">> \o call_info.customer_id ELSE <<>>)

\* AutoAudioRecorder._save_recording: base_filename and f"mic_{base_filename}.wav"
base_filename(timestamp, call_info) == timestamp \o metadata_parts(call_info)
stream_filename(kind, timestamp, call_info) == <<kind>> \o base_filename(timestamp, call_info)

\* AudioPostProcessor._generate_merged_filename: the timestamp is taken from
\* the last two pieces of the original file's name
generate_merged_filename(original_file, call_info, stamp_now) ==
    LET parts == original_file
        timestamp ==
            IF Len(parts) >= 2
            THEN <<parts[Len(parts) - 1], parts[Len(parts)]>>
            ELSE stamp_now
    IN  <<"merged">> \o timestamp \o metadata_parts(call_info)

InitName ==
    /\ now = 0
    /\ BufIdle
    /\ DetInit(NoConfig)
    /\ EngInit
    /\ StartIdle
    /\ PostIdle
    /\ InfoIdle
    /\ \E ts \in Stamps, ci \in CallInfos, kind \in {"mic", "system"} :
          args = [timestamp |-> ts, call_info |-> ci, kind |-> kind]
    /\ result = <<>>

\* the engine names the stream file, the post-processor names the merged file
NameFiles ==
    /\ result = <<>>
    /\ LET original == stream_filename(args.kind, args.timestamp, args.call_info)
       IN  result' = [original |-> original,
                      merged |-> generate_merged_filename(original, args.call_info, MergeStamp)]
    /\ UNCHANGED <<engAll, startVars, postVars, args>>

NextName == NameFiles

SpecName == InitName /\ [][NextName]_vars

(***************************************************************************)
(* SpecPost: AudioPostProcessor.  start(), stop() and submit_recording()   *)
(* are called one after the other by the application; the worker thread    *)
(* runs _process_worker, one action per step of _process_recording.  A wav *)
(* file is the sequence of its int16 samples.  stop()'s join is taken to   *)
(* wait for the worker to leave its loop; upload_files() is taken to       *)
(* finish inside the call.                                                 *)
(***************************************************************************)
\* sessions submitted in one run
MaxSessions == 2
\* _is_audio_silent's frame_size (1024 in the code), in samples
frame_size == 2
\* int16 full scale
full_scale == 32768
\* post_processing.silence_threshold in thousandths, silence_ratio in percent
silence_threshold == 1
silence_ratio == 95
default_min_duration == 5
\* settings.post_processing of the runs: a short min_duration
post_processing == [min_duration |-> 2]

\* what a stream file of a submitted session holds: nothing written (None),
\* a long loud file, a file shorter than min_duration, a long silent file,
\* a long file just above the silence threshold
PostContents == {<<100, -100, 100, -100>>, <<100>>, <<0, 0, 0, 0>>, <<30, 30, 40, 40>>}
PostProfiles == {[given |-> FALSE, data |-> <<>>]} \cup {[given |-> TRUE, data |-> d] : d \in PostContents}
PostCallInfos ==
    {[agent_phone |-> a, customer_name |-> <<>>, customer_id |-> <<>>] : a \in {<<>>, <<"13800">>}}
\* upload.auto_delete is read only by an enabled uploader
PostConfigs ==
    {c \in [keep_original : BOOLEAN, upload_enabled : BOOLEAN, auto_delete : BOOLEAN] :
        c.auto_delete => c.upload_enabled}
SessionStamp(k) == <<"20240101", ToString(120000 + k)>>

\* os.path.exists(path), for a path that is not None
exists(fs, path) == path # NoFile /\ \E f \in fs : f.name = path
read_frames(fs, path) == (CHOOSE f \in fs : f.name = path).data
\* os.remove(path)
remove(fs, path) == {f \in fs : f.name # path}

\* _get_audio_duration in frames (duration * framerate), 0 for a missing file
get_audio_frames(fs, audio_file) ==
    IF ~exists(fs, audio_file) THEN 0 ELSE Len(read_frames(fs, audio_file))

\* duration < self.config.get('min_duration', 5.0), duration = frames / framerate
duration_below_min(fs, audio_file) ==
    get_audio_frames(fs, audio_file)
        < Get(post_processing, "min_duration", default_min_duration) * sample_rate

\* np.sqrt(np.mean(frame ** 2)) < threshold, frame = int16 / 32768:
\* sum / n < (threshold * 32768 / 1000) ^ 2, both sides divided by 64
frame_silent(samples) ==
    SumSq(samples) * 15625
        < silence_threshold * silence_threshold * ((full_scale * full_scale) \div 64) * Len(samples)

\* _is_audio_silent
is_audio_silent(fs, audio_file) ==
    IF ~exists(fs, audio_file) THEN TRUE
    ELSE LET audio_data == read_frames(fs, audio_file)
             total_frames == Len(audio_data) \div frame_size
             silent_frames ==
                 Cardinality({i \in 1..total_frames :
                     frame_silent(SubSeq(audio_data, (i - 1) * frame_size + 1, i * frame_size))})
         IN  IF Len(audio_data) = 0 THEN TRUE
             ELSE IF total_frames = 0 THEN TRUE
             ELSE silent_frames * 100 > silence_ratio * total_frames

\* _is_single_side_silent
is_single_side_silent(fs, mic_file, system_file) ==
    is_audio_silent(fs, mic_file) \/ is_audio_silent(fs, system_file)

\* _read_audio_file
read_audio_file(fs, audio_file) ==
    IF ~exists(fs, audio_file) THEN NoArray ELSE Array(read_frames(fs, audio_file))

\* (x * 32767).astype(np.int16) of x = v / 32768: rounds towards zero
to_int16(v) ==
    IF v >= 0 THEN (v * (full_scale - 1)) \div full_scale
    ELSE -(((-v) * (full_scale - 1)) \div full_scale)

\* mic_file or system_file
first_given(mic_file, system_file) == IF mic_file # NoFile THEN mic_file ELSE system_file

engPostVars == <<now, bufVars, detVars, startVars, pureVars, infoVars, state, is_monitoring,
                 recording_mic_data, recording_system_data, recording_start_time,
                 mic_stream, system_stream, pc, call_duration, frame, delivered,
                 starts, episode>>

InitPost ==
    /\ now = 0
    /\ BufIdle
    /\ DetInit(NoConfig)
    /\ EngInit
    /\ StartIdle
    /\ PureIdle
    /\ InfoIdle
    /\ is_running = FALSE
    /\ worker = WorkerNone
    /\ stopper = "idle"
    /\ post_config \in PostConfigs
    /\ uploads = <<>>
    /\ processed = <<>>
    /\ submitted = 0

\* ---- the application's calls
\* start(): nothing when already running, else is_running = True and a new worker thread
PostStart ==
    /\ stopper = "idle"
    /\ IF is_running
       THEN UNCHANGED <<is_running, worker>>
       ELSE /\ is_running' = TRUE
            /\ worker' = [WorkerNone EXCEPT !.pc = "loop"]
    /\ UNCHANGED <<engPostVars, files, processing_queue, stopper, post_config, uploads,
                   processed, submitted>>

\* stop(): is_running = False, then join the worker thread if there is one
PostStop ==
    /\ stopper = "idle"
    /\ is_running' = FALSE
    /\ stopper' = IF worker.pc = "none" THEN "idle" ELSE "join"
    /\ UNCHANGED <<engPostVars, files, processing_queue, worker, post_config, uploads,
                   processed, submitted>>

\* self.worker_thread.join(): the worker has left its loop
PostJoin ==
    /\ stopper = "join"
    /\ worker.pc = "exited"
    /\ stopper' = "idle"
    /\ UNCHANGED <<engPostVars, files, processing_queue, is_running, worker, post_config,
                   uploads, processed, submitted>>

\* a recorder has written the stream files of a session and calls
\* submit_recording(mic_file, system_file, call_info)
Submit ==
    /\ submitted < MaxSessions
    /\ submitted' = submitted + 1
    /\ \E mic \in PostProfiles, sys \in PostProfiles, call_info \in PostCallInfos :
          LET id == submitted + 1
              mic_file == IF mic.given
                          THEN stream_filename("mic", SessionStamp(id), call_info)
                          ELSE NoFile
              system_file == IF sys.given
                             THEN stream_filename("system", SessionStamp(id), call_info)
                             ELSE NoFile
              withMic == IF mic.given THEN WriteFile(files, mic_file, mic.data) ELSE files
          IN  /\ files' = IF sys.given THEN WriteFile(withMic, system_file, sys.data)
                          ELSE withMic
              /\ processing_queue' =
                     Append(processing_queue,
                            [id |-> id, mic_file |-> mic_file, system_file |-> system_file,
                             call_info |-> call_info])
    /\ UNCHANGED <<engPostVars, is_running, worker, stopper, post_config, uploads, processed>>

\* ---- the worker thread
WorkerGoto(l) == worker' = [worker EXCEPT !.pc = l]

Finished(session, outcome) ==
    [id |-> session.id, outcome |-> outcome,
     mic_file |-> session.mic_file, system_file |-> session.system_file]

\* the item is finished: back to the while loop
WorkerFinish(outcome) ==
    /\ processed' = Append(processed, Finished(worker.session_data, outcome))
    /\ worker' = [WorkerNone EXCEPT !.pc = "loop"]

\* while self.is_running
WorkerLoop ==
    /\ worker.pc = "loop"
    /\ WorkerGoto(IF is_running THEN "get" ELSE "exited")
    /\ UNCHANGED <<engPostVars, files, processing_queue, is_running, stopper, post_config,
                   uploads, processed, submitted>>

\* session_data = self.processing_queue.get(timeout=1.0); Empty is caught: continue
WorkerGet ==
    /\ worker.pc = "get"
    /\ IF processing_queue # <<>>
       THEN /\ worker' = [worker EXCEPT !.pc = "duration",
                                        !.session_data = Head(processing_queue)]
            /\ processing_queue' = Tail(processing_queue)
       ELSE /\ WorkerGoto("loop")
            /\ UNCHANGED processing_queue
    /\ UNCHANGED <<engPostVars, files, is_running, stopper, post_config, uploads,
                   processed, submitted>>

\* 1. duration = self._get_audio_duration(mic_file or system_file)
WorkerDuration ==
    /\ worker.pc = "duration"
    /\ WorkerGoto(IF duration_below_min(files, first_given(worker.session_data.mic_file,
                                                           worker.session_data.system_file))
                  THEN "cleanup_invalid" ELSE "silence")
    /\ UNCHANGED <<engPostVars, files, processing_queue, is_running, stopper, post_config,
                   uploads, processed, submitted>>

WorkerSilenceMicOnly ==
    /\ worker.pc = "silence"
    /\ WorkerGoto(IF is_audio_silent(files, worker.session_data.mic_file)
                  THEN "cleanup_invalid" ELSE "merge")
    /\ UNCHANGED <<engPostVars, files, processing_queue, is_running, stopper, post_config,
                   uploads, processed, submitted>>

\* 2. if self._is_single_side_silent(mic_file, system_file)
WorkerSilence ==
    /\ worker.pc = "silence"
    /\ WorkerGoto(IF is_single_side_silent(files, worker.session_data.mic_file,
                                           worker.session_data.system_file)
                  THEN "cleanup_invalid" ELSE "merge")
    /\ UNCHANGED <<engPostVars, files, processing_queue, is_running, stopper, post_config,
                   uploads, processed, submitted>>

\* the stream files left after os.remove of those that exist; os.remove
\* raises for the files in broken, which is caught and logged
cleanup(fs, mic_file, system_file, broken) ==
    LET afterMic == IF exists(fs, mic_file) /\ "mic" \notin broken
                    THEN remove(fs, mic_file) ELSE fs
    IN  IF exists(afterMic, system_file) /\ "system" \notin broken
        THEN remove(afterMic, system_file) ELSE afterMic

WorkerCleanupInvalidKeepsSystem ==
    /\ worker.pc = "cleanup_invalid"
    /\ files' = remove(files, worker.session_data.mic_file)
    /\ WorkerFinish("rejected")
    /\ UNCHANGED <<engPostVars, processing_queue, is_running, stopper, post_config,
                   uploads, submitted>>

\* self._cleanup_invalid(mic_file, system_file); return
WorkerCleanupInvalid ==
    /\ worker.pc = "cleanup_invalid"
    /\ \E broken \in SUBSET {"mic", "system"} :
          /\ files' = cleanup(files, worker.session_data.mic_file,
                              worker.session_data.system_file, broken)
          /\ WorkerFinish(IF broken = {} THEN "rejected" ELSE "rejected, remove failed")
    /\ UNCHANGED <<engPostVars, processing_queue, is_running, stopper, post_config,
                   uploads, submitted>>

\* what _merge_to_stereo writes: stereo_int16.tobytes(), the frames one after
\* the other, left sample then right sample
merged_frames(fs, mic_file, system_file) ==
    LET stereo == stereo_data(read_audio_file(fs, mic_file), read_audio_file(fs, system_file))
    IN  [i \in 1..(2 * Len(stereo.samples)) |->
            IF i % 2 = 1
            THEN to_int16(stereo.samples[(i + 1) \div 2][1])
            ELSE to_int16(stereo.samples[i \div 2][2])]

\* the name _merge_to_stereo writes to
merged_filename_of(session) ==
    generate_merged_filename(first_given(session.mic_file, session.system_file),
                             session.call_info, MergeStamp)

\* what a merge that raised has left at the merged path: nothing when it
\* raised before wave.open, a file without frames when it raised after
FailedMergeFiles(fs, session) == {fs, WriteFile(fs, merged_filename_of(session), <<>>)}

WorkerMergeIgnoresFailure ==
    /\ worker.pc = "merge"
    /\ LET session == worker.session_data
       IN  \E written_ok \in BOOLEAN :
              /\ IF written_ok
                 THEN files' = WriteFile(files, merged_filename_of(session),
                                         merged_frames(files, session.mic_file,
                                                       session.system_file))
                 ELSE files' \in FailedMergeFiles(files, session)
              /\ worker' = [worker EXCEPT !.pc = "upload",
                                          !.merged_file = merged_filename_of(session)]
              /\ UNCHANGED processed
    /\ UNCHANGED <<engPostVars, processing_queue, is_running, stopper, post_config,
                   uploads, submitted>>

\* 3. merged_file = self._merge_to_stereo(mic_file, system_file, call_info);
\* an exception inside it is caught there, None is returned and the item ends
WorkerMerge ==
    /\ worker.pc = "merge"
    /\ LET session == worker.session_data
       IN  \E written_ok \in BOOLEAN :
              IF written_ok
              THEN /\ files' = WriteFile(files, merged_filename_of(session),
                                         merged_frames(files, session.mic_file,
                                                       session.system_file))
                   /\ worker' = [worker EXCEPT !.pc = "upload",
                                               !.merged_file = merged_filename_of(session)]
                   /\ UNCHANGED processed
              ELSE /\ WorkerFinish("merge failed")
                   /\ files' \in FailedMergeFiles(files, session)
    /\ UNCHANGED <<engPostVars, processing_queue, is_running, stopper, post_config,
                   uploads, submitted>>

WorkerUploadFailureEndsItem ==
    /\ worker.pc = "upload"
    /\ IF post_config.upload_enabled
       THEN \E outcome \in {"ok", "failed", "raised"} :
               /\ uploads' = Append(uploads, <<worker.merged_file, outcome>>)
               /\ files' = IF outcome = "ok" THEN files ELSE remove(files, worker.merged_file)
               /\ IF outcome = "ok"
                  THEN WorkerGoto("cleanup") /\ UNCHANGED processed
                  ELSE WorkerFinish("upload failed")
       ELSE /\ WorkerGoto("cleanup")
            /\ UNCHANGED <<uploads, files, processed>>
    /\ UNCHANGED <<engPostVars, processing_queue, is_running, stopper, post_config, submitted>>

\* 4. if upload.enabled: self._upload_merged_file(merged_file, call_info).
\* The uploader reports success or failure to a callback that logs it, or
\* raises, which is caught and logged; after a successful upload it deletes
\* the local file when upload.auto_delete is set
WorkerUpload ==
    /\ worker.pc = "upload"
    /\ IF post_config.upload_enabled
       THEN \E outcome \in {"ok", "failed", "raised"} :
               /\ uploads' = Append(uploads, <<worker.merged_file, outcome>>)
               /\ files' = IF outcome = "ok" /\ post_config.auto_delete
                           THEN remove(files, worker.merged_file)
                           ELSE files
       ELSE UNCHANGED <<uploads, files>>
    /\ WorkerGoto("cleanup")
    /\ UNCHANGED <<engPostVars, processing_queue, is_running, stopper, post_config,
                   processed, submitted>>

WorkerCleanupAlways ==
    /\ worker.pc = "cleanup"
    /\ files' = cleanup(files, worker.session_data.mic_file,
                        worker.session_data.system_file, {})
    /\ WorkerFinish("merged")
    /\ UNCHANGED <<engPostVars, processing_queue, is_running, stopper, post_config,
                   uploads, submitted>>

\* 5. if not keep_original: self._cleanup_original(mic_file, system_file)
WorkerCleanup ==
    /\ worker.pc = "cleanup"
    /\ IF ~post_config.keep_original
       THEN \E broken \in SUBSET {"mic", "system"} :
               /\ files' = cleanup(files, worker.session_data.mic_file,
                                   worker.session_data.system_file, broken)
               /\ WorkerFinish(IF broken = {} THEN "merged" ELSE "merged, remove failed")
       ELSE /\ UNCHANGED files
            /\ WorkerFinish("merged")
    /\ UNCHANGED <<engPostVars, processing_queue, is_running, stopper, post_config,
                   uploads, submitted>>

ProcessingSteps == {"duration", "silence", "cleanup_invalid", "merge", "upload", "cleanup"}

WorkerRaiseKillsWorker ==
    /\ worker.pc \in ProcessingSteps
    /\ processed' = Append(processed, Finished(worker.session_data, "error"))
    /\ worker' = [WorkerNone EXCEPT !.pc = "exited"]
    /\ UNCHANGED <<engPostVars, files, processing_queue, is_running, stopper, post_config,
                   uploads, submitted>>

\* a statement of _process_recording raises: except Exception logs it and the
\* function returns; the worker's own except: continue catches the rest
WorkerRaise ==
    /\ worker.pc \in ProcessingSteps
    /\ WorkerFinish("error")
    /\ UNCHANGED <<engPostVars, files, processing_queue, is_running, stopper, post_config,
                   uploads, submitted>>

WorkerStep ==
    \/ WorkerLoop
    \/ WorkerGet
    \/ WorkerDuration
    \/ WorkerSilence
    \/ WorkerCleanupInvalid
    \/ WorkerMerge
    \/ WorkerUpload
    \/ WorkerCleanup

NextPost ==
    \/ PostStart
    \/ PostStop
    \/ PostJoin
    \/ Submit
    \/ WorkerLoop
    \/ WorkerGet
    \/ WorkerDuration
    \/ WorkerSilence
    \/ WorkerCleanupInvalid
    \/ WorkerMerge
    \/ WorkerUpload
    \/ WorkerCleanup
    \/ WorkerRaise

SpecPost == InitPost /\ [][NextPost]_vars

\* the worker thread and the joining thread are scheduled as long as they can run
SpecPostFair == SpecPost /\ WF_vars(WorkerStep) /\ WF_vars(PostJoin)

(***************************************************************************)
(* SpecInfo: set_call_info() called between the steps of a session.  The   *)
(* engine's handlers run one after the other, _stop_recording in two steps *)
(* (the state STOPPING, then the save); every session has data in both     *)
(* streams.                                                                *)
(***************************************************************************)
\* the clock of these runs stops here
MaxInfoClock == 2

\* what the window passes to set_call_info
InfoCallInfos ==
    {NoInfo,
     [NoInfo EXCEPT !.agent_phone = <<"13800">>],
     [NoInfo EXCEPT !.agent_phone = <<"13800">>, !.customer_name = <<"Li", "Si">>]}

engInfoVars == <<bufVars, detVars, startVars, pureVars, postVars, processing_queue, pc,
                 call_duration, frame, delivered, starts, episode>>

InitInfo ==
    /\ now = 0
    /\ BufIdle
    /\ DetInit(auto_config)
    /\ EngInit
    /\ RestIdle

InfoTick ==
    /\ now < MaxInfoClock
    /\ now' = now + 1
    /\ UNCHANGED <<engInfoVars, infoVars, state, is_monitoring, recording_mic_data,
                   recording_system_data, recording_start_time, mic_stream,
                   system_stream, files>>

\* set_call_info(agent_phone, customer_name, customer_id)
InfoSetCallInfo ==
    /\ \E info \in InfoCallInfos : recorder_call_info' = info
    /\ UNCHANGED <<engInfoVars, now, info_at_start, state, is_monitoring,
                   recording_mic_data, recording_system_data, recording_start_time,
                   mic_stream, system_stream, files>>

\* start_monitoring() with usable devices
InfoStartMonitoring ==
    /\ ~is_monitoring
    /\ is_monitoring' = TRUE
    /\ state' = "monitoring"
    /\ mic_stream' = TRUE
    /\ system_stream' = TRUE
    /\ UNCHANGED <<engInfoVars, infoVars, now, recording_mic_data, recording_system_data,
                   recording_start_time, files>>

\* _start_recording(): the session is seeded from the ring buffers
InfoStartRecording ==
    /\ state = "monitoring"
    /\ state' = "recording"
    /\ recording_start_time' = now
    /\ recording_mic_data' = FrameOf(1, TRUE)
    /\ recording_system_data' = FrameOf(2, TRUE)
    /\ info_at_start' = recorder_call_info
    /\ UNCHANGED <<engInfoVars, now, recorder_call_info, is_monitoring, mic_stream,
                   system_stream, files>>

\* _stop_recording(): self.state = STOPPING
InfoStopSet ==
    /\ state = "recording"
    /\ state' = "stopping"
    /\ UNCHANGED <<engInfoVars, infoVars, now, is_monitoring, recording_mic_data,
                   recording_system_data, recording_start_time, mic_stream,
                   system_stream, files>>

\* the rest of _stop_recording(): a call that was too short is discarded,
\* else _save_recording() names the files after recording_start_time and
\* self.call_info; self.state = MONITORING
InfoSave ==
    /\ state = "stopping"
    /\ \E long_enough \in BOOLEAN :
          files' =
             IF long_enough
             THEN WriteFile(WriteFile(files,
                                      stream_filename("mic", SessionStamp(recording_start_time),
                                                      recorder_call_info),
                                      recording_mic_data),
                            stream_filename("system", SessionStamp(recording_start_time),
                                            recorder_call_info),
                            recording_system_data)
             ELSE files
    /\ state' = "monitoring"
    /\ UNCHANGED <<engInfoVars, infoVars, now, is_monitoring, recording_mic_data,
                   recording_system_data, recording_start_time, mic_stream, system_stream>>

NextInfo ==
    \/ InfoTick
    \/ InfoSetCallInfo
    \/ InfoStartMonitoring
    \/ InfoStartRecording
    \/ InfoStopSet
    \/ InfoSave

SpecInfo == InitInfo /\ [][NextInfo]_vars

(***************************************************************************)
(* Properties                                                              *)
(***************************************************************************)
AllowedTransitions ==
    {<<"idle", "monitoring">>, <<"monitoring", "recording">>,
     <<"recording", "stopping">>, <<"stopping", "monitoring">>,
     <<"monitoring", "idle">>}

\* C1: RecordingState starts at Idle and only ever changes along
\* Idle->Monitoring, Monitoring->Recording, Recording->Stopping,
\* Stopping->Monitoring or Monitoring->Idle, under every interleaving of
\* start_monitoring(), stop_monitoring(), the callbacks and the polling loop.
C1_OnlyAllowedTransitions ==
    /\ state = "idle"
    /\ [][state' = state \/ <<state, state'>> \in AllowedTransitions]_vars

\* C2: should_start_recording() returns false when called less than
\* start_duration after the earliest active frame (of either stream) since the
\* timers were last cleared, and true when called at or after start_duration
\* from that frame unless this call clears the timers; one stream suffices.
C2_ShouldStartThreshold ==
    [][det_call'.op = "should_start_recording" =>
          /\ (earliest_active # None
                /\ now' - earliest_active < activity_detector.start_duration)
             => ~det_call'.bool
          /\ (earliest_active # None
                /\ now' - earliest_active >= activity_detector.start_duration
                /\ earliest_active' # None)
             => det_call'.bool]_vars

\* should_start_recording() has returned true on the mic's activity alone
C2_Witness ==
    /\ det_call.op = "should_start_recording"
    /\ det_call.bool
    /\ activity_detector.mic_active_start # None
    /\ activity_detector.system_active_start = None
    /\ now - earliest_active >= activity_detector.start_duration

\* C3: should_stop_recording() returns true exactly when a call is in
\* progress, activity has been recorded, the silence has lasted
\* end_silence_duration and the call min_call_duration.
C3_ShouldStopIff ==
    det_call.op = "should_stop_recording" =>
       (det_call.bool <=>
           /\ activity_detector.call_start_time # None
           /\ activity_detector.last_activity_time # None
           /\ now - activity_detector.last_activity_time
                 >= activity_detector.end_silence_duration
           /\ now - activity_detector.call_start_time
                 >= activity_detector.min_call_duration)

\* should_stop_recording() has returned true after activity inside the call
C3_Witness ==
    /\ det_call.op = "should_stop_recording"
    /\ det_call.bool
    /\ activity_detector.last_activity_time > activity_detector.call_start_time
    /\ now - activity_detector.last_activity_time >= activity_detector.end_silence_duration

SRSteps == {"sr_state", "sr_clear", "sr_seed_mic", "sr_seed_sys", "sr_start_call"}

\* C4: at the Monitoring->Recording transition both session buffers are
\* emptied, then each is extended by exactly the contents read_all() gives for
\* its ring buffer at that moment, start_call() is invoked, and no step of the
\* transition changes a ring buffer.
C4_PreRollSeeded ==
    [][/\ (state = "monitoring" /\ state' = "recording") => pc["mon"] = "sr_state"
       /\ (pc["mon"] = "sr_clear" /\ pc'["mon"] = "sr_seed_mic")
          => (recording_mic_data' = <<>> /\ recording_system_data' = <<>>)
       /\ (pc["mon"] = "sr_seed_mic" /\ pc'["mon"] = "sr_seed_sys")
          => recording_mic_data' = recording_mic_data \o mic_buffer.buffer
       /\ (pc["mon"] = "sr_seed_sys" /\ pc'["mon"] = "sr_start_call")
          => recording_system_data' = recording_system_data \o system_buffer.buffer
       /\ (pc["mon"] = "sr_start_call" /\ pc'["mon"] = "sleep")
          => activity_detector'.call_start_time = now
       /\ (pc["mon"] \in SRSteps /\ pc'["mon"] # pc["mon"])
          => (mic_buffer' = mic_buffer /\ system_buffer' = system_buffer)]_vars

\* the transition has completed and the mic session holds the pre-roll
C4_Witness ==
    /\ state = "recording"
    /\ pc["mon"] = "sleep"
    /\ activity_detector.call_start_time = now
    /\ recording_mic_data # <<>>
    /\ recording_mic_data = mic_buffer.buffer
    /\ recording_system_data = system_buffer.buffer

\* C5: read_all() returns the last min(S, C) samples written since the buffer
\* was made or cleared, in order, with C = int(duration_seconds * sample_rate);
\* the stored length never exceeds C.
C5_LastSamplesKept ==
    LET C == mic_buffer.max_samples
        S == Len(written)
    IN  /\ 2 * C <= buffer_args[1] * buffer_args[2]
        /\ buffer_args[1] * buffer_args[2] < 2 * (C + 1)
        /\ Len(mic_buffer.buffer) <= C
        /\ read_all(mic_buffer) = LastN(written, Min(S, C))

\* more was written than fits and read_all() returned the newest samples
C5_Witness ==
    /\ mic_buffer.max_samples >= 2
    /\ Len(written) > mic_buffer.max_samples
    /\ read_result = LastN(written, mic_buffer.max_samples)
    /\ read_result[1] # read_result[2]

\* C6: a callback writes its frame to its ring buffer whatever the engine
\* state, appends it to its session buffer exactly when the state is
\* Recording at that step, and never changes RecordingState.
C6_CallbackFrame ==
    [][\A s \in Streams :
          LET buf == IF s = "mic" THEN mic_buffer ELSE system_buffer
              bufNew == IF s = "mic" THEN mic_buffer' ELSE system_buffer'
              data == IF s = "mic" THEN recording_mic_data ELSE recording_system_data
              dataNew == IF s = "mic" THEN recording_mic_data' ELSE recording_system_data'
          IN  /\ (pc[s] = "idle" /\ pc'[s] = "append")
                 => (frame'[s] # <<>> /\ bufNew = write(buf, frame'[s]) /\ dataNew = data)
              /\ (pc[s] = "append" /\ pc'[s] = "idle")
                 => (dataNew = IF state = "recording" THEN data \o frame[s] ELSE data)
              /\ pc'[s] # pc[s] => state' = state]_vars

\* a loud frame has been handled after start_call(), while Recording
C6_Witness ==
    /\ state = "recording"
    /\ pc["mic"] = "idle"
    /\ pc["sys"] = "idle"
    /\ activity_detector.call_start_time # None
    /\ activity_detector.last_activity_time > activity_detector.call_start_time
    /\ Len(recording_mic_data) + Len(recording_system_data) = 2

\* the session being finalized is in the post-processor's queue
SessionSubmitted ==
    \E i \in DOMAIN processing_queue :
        \/ processing_queue[i].mic_file = [kind |-> "mic", ts |-> recording_start_time]
        \/ processing_queue[i].system_file = [kind |-> "system", ts |-> recording_start_time]

\* C7: when the engine leaves Recording through the Stopping path with
\* call_duration >= min_call_duration, the session has been submitted to the
\* post-processor before the state returns to Monitoring.
C7_SubmittedBeforeMonitoring ==
    \A t \in Workers : pc[t] = "stop_done" => SessionSubmitted

\* C8: when stop_monitoring() returns the state is Idle, both streams are
\* closed and no session is in progress; every session that entered Recording
\* was ended (saved or discarded) before the streams were closed.
C8_StopMonitoringFlushes ==
    [][/\ (pc["ctl"] = "stop_mic_stream" /\ pc'["ctl"] = "stop_system_stream")
          => (~episode.open /\ state # "recording")
       /\ (pc["ctl"] = "join" /\ pc'["ctl"] = "idle")
          => /\ state' = "idle"
             /\ ~mic_stream' /\ ~system_stream'
             /\ ~episode'.open
             /\ activity_detector'.call_start_time = None]_vars

\* C9: for each Recording episode the stop path runs at most once: one pass of
\* the guard, one effective end_call(), one outcome (saved or discarded).
C9_StopPathRunsOnce ==
    /\ episode.stop_runs <= 1
    /\ episode.end_calls <= 1
    /\ episode.saved + episode.discarded <= 1

engineShape == <<state, is_monitoring, mic_stream, system_stream, stream_pairs, polling_loops>>

\* C11: start_monitoring() called while monitoring is active returns failure
\* and changes nothing, so that under every interleaving of start_monitoring()
\* calls at most one polling loop and one pair of capture streams is active.
C11_SingleMonitor ==
    /\ [](polling_loops <= 1 /\ stream_pairs <= 1)
    /\ [][\A c \in Callers :
            (caller[c] = "check" /\ caller'[c] = "idle")
               => (~ret'[c].value /\ engineShape' = engineShape)]_vars

\* a capture source that passes validation: no id given, or an existing
\* device with input channels
DeviceUsable(device) ==
    \/ device = None
    \/ (device \in 0..(Len(devices) - 1) /\ devices[device + 1] > 0)

\* C12: when either capture source fails validation, start_monitoring()
\* returns failure at once, opening no stream and starting no polling loop;
\* as long as no pair of streams was opened and no call is past validation
\* the engine is Idle with is_monitoring false and without a polling loop.
C12_InvalidDeviceFails ==
    /\ []((stream_pairs = 0 /\ \A c \in Callers : caller[c] \notin {"streams", "spawn"})
             => (state = "idle" /\ ~is_monitoring /\ ~system_stream
                   /\ polling_loops = 0))
    /\ [][\A c \in Callers :
            (/\ caller[c] = "validate"
             /\ caller'[c] # "validate"
             /\ ~(DeviceUsable(mic_device) /\ DeviceUsable(system_device)))
            => (/\ ~ret'[c].value
                /\ caller'[c] = "idle"
                /\ engineShape' = engineShape)]_vars

\* a call with a usable mic and a system device without input channels has
\* been refused and the engine is still idle
C12_Witness ==
    /\ \E c \in Callers : ret[c].why = "invalid" /\ caller[c] = "idle"
    /\ mic_device = 0
    /\ system_device = 1
    /\ state = "idle"
    /\ ~is_monitoring
    /\ stream_pairs = 0
    /\ polling_loops = 0

\* C15: merging two mono buffers of lengths a and b gives max(a, b) stereo
\* frames; the left channel is the mic samples and the right channel the
\* other stream's samples, each in order, the shorter one followed by zeros;
\* nothing is dropped, truncated or reordered.
C15_MergePadsShorter ==
    (result # <<>> /\ args.mic_data.present /\ args.system_data.present) =>
        LET mic == args.mic_data.samples
            other == args.system_data.samples
            out == result.stereo_data.samples
        IN  /\ result.stereo_data.present
            /\ Len(out) = Max(Len(mic), Len(other))
            /\ \A i \in 1..Len(out) :
                  /\ out[i][1] = IF i <= Len(mic) THEN mic[i] ELSE 0
                  /\ out[i][2] = IF i <= Len(other) THEN other[i] ELSE 0

\* a two-sample mic buffer merged with a one-sample buffer: the second frame
\* has the mic sample on the left and zero on the right
C15_Witness ==
    /\ result # <<>>
    /\ args.mic_data = Array(<<5, -7>>)
    /\ args.system_data = Array(<<5>>)
    /\ result.stereo_data = Array(<<(<<5, 5>>), (<<-7, 0>>)>>)

\* C16: the merged file is named merged_{timestamp of the session start}
\* followed by the Agent / Customer / ID pieces of the non-empty metadata
\* fields, the same timestamp and suffix as the session's stream file.
C16_MergedFilename ==
    result # <<>> =>
        /\ result.merged = <<"merged">> \o args.timestamp \o metadata_parts(args.call_info)
        /\ Tail(result.merged) = Tail(result.original)

\* the session is long enough and neither of its streams is classified silent
SessionValid(fs, session) ==
    /\ get_audio_frames(fs, first_given(session.mic_file, session.system_file))
          >= Get(post_processing, "min_duration", default_min_duration) * sample_rate
    /\ ~is_audio_silent(fs, session.mic_file)
    /\ ~is_audio_silent(fs, session.system_file)

MergedFiles(fs) == {f \in fs : f.name[1] = "merged"}

\* C13: the post-processor writes a merged file only for a session whose
\* duration is at least min_duration and whose streams are both not silent
\* (a missing stream file is silent); a valid session goes on to the merge and
\* only an invalid one is rejected; nothing is uploaded for an invalid one.
C13_OnlyValidMerged ==
    [][/\ (worker.pc \in {"duration", "silence"} /\ worker'.pc = "cleanup_invalid")
          => ~SessionValid(files, worker.session_data)
       /\ (worker.pc = "silence" /\ worker'.pc = "merge")
          => SessionValid(files, worker.session_data)
       /\ (worker.pc = "duration" /\ SessionValid(files, worker.session_data))
          => worker'.pc \in {"duration", "silence", "loop"}
       /\ (worker.pc = "silence" /\ worker'.pc = "loop")
          => processed'[Len(processed')].outcome = "error"
       /\ MergedFiles(files') \ MergedFiles(files) # {}
          => (worker.pc = "merge" /\ SessionValid(files, worker.session_data))
       /\ uploads' # uploads
          => (worker.pc = "upload" /\ SessionValid(files, worker.session_data))]_vars

\* of two sessions one was rejected and one merged, and one merged file exists
C13_Witness ==
    /\ Len(processed) = 2
    /\ processed[1].outcome = "rejected"
    /\ processed[2].outcome = "merged"
    /\ Cardinality(MergedFiles(files)) = 1

C18_ErrorAbortsOnlyItem ==
    /\ [](worker.pc = "exited" => ~is_running)
    /\ [][(Len(processed') = Len(processed) + 1
             /\ processed'[Len(processed')].outcome = "error")
          => /\ worker'.pc = "loop"
             /\ worker.pc \in ProcessingSteps
             /\ processing_queue' = processing_queue
             /\ is_running' = is_running
             /\ files' = files
             /\ uploads' = uploads]_vars
    /\ [][(worker.pc = "loop" /\ worker'.pc # "loop")
          => worker'.pc = (IF is_running THEN "get" ELSE "exited")]_vars
    /\ [][(worker.pc = "get" /\ worker' # worker)
          => IF processing_queue # <<>>
               THEN /\ worker'.pc = "duration"
                    /\ worker'.session_data = Head(processing_queue)
                    /\ processing_queue' = Tail(processing_queue)
               ELSE worker'.pc = "loop"]_vars

\* the first item raised, the one submitted behind it was merged
C18_Witness ==
    /\ Len(processed) = 2
    /\ processed[1].outcome = "error"
    /\ processed[2].outcome = "merged"
    /\ processed[2].id = 2

\* C19: a failed upload (reported or raised) leaves every file, the merged
\* one included, on disk; an item is handed to the uploader at most once; and
\* the item goes on to its cleanup step.
C19_UploadFailureOnlyLogged ==
    /\ [](Len(uploads) <= Len(processed) + (IF worker.pc = "cleanup" THEN 1 ELSE 0))
    /\ [][uploads' # uploads
          => /\ worker.pc = "upload"
             /\ Len(uploads') = Len(uploads) + 1
             /\ SubSeq(uploads', 1, Len(uploads)) = uploads
             /\ uploads'[Len(uploads')][1] = worker.merged_file
             /\ worker'.pc = "cleanup"
             /\ worker'.session_data = worker.session_data
             /\ processed' = processed
             /\ uploads'[Len(uploads')][2] # "ok"
                => (files' = files /\ exists(files', worker.merged_file))]_vars

\* an upload failed, its merged file is on disk and the item was cleaned up
C19_Witness ==
    /\ Len(uploads) = 1
    /\ uploads[1][2] = "failed"
    /\ exists(files, uploads[1][1])
    /\ Len(processed) = 1
    /\ processed[1].outcome = "merged"
    /\ ~post_config.keep_original
    /\ ~exists(files, processed[1].mic_file)

C17_EverySubmittedProcessed ==
    /\ [](\A i \in DOMAIN processed : processed[i].id = i)
    /\ \A k \in 1..MaxSessions :
          (submitted >= k) ~> (Len(processed) >= k)

\* C21: a stream's active_start is None exactly when the stream has been
\* below the threshold long enough to reset: once no frame of either stream
\* (so none of this stream) has been active for longer than the reset window,
\* both timers are None; and an inactive frame handed to update_*_activity
\* clears nothing.
C21_ActiveSinceReset ==
    /\ []((/\ activity_detector.last_activity_time # None
           /\ now - activity_detector.last_activity_time > reset_silence)
          => TimersClear(activity_detector))
    /\ [][(/\ det_call'.op \in {"update_mic_activity", "update_system_activity"}
           /\ ~det_call'.bool)
          => activity_detector' = activity_detector]_vars

\* C22: after every end_call() the call_start_time and both active_start
\* timers are None, and the value returned is the time since start_call(),
\* or 0 when no call was active.
C22_EndCallClears ==
    [][det_call'.op = "end_call"
       => /\ activity_detector'.call_start_time = None
          /\ TimersClear(activity_detector')
          /\ det_call'.num = IF activity_detector.call_start_time = None THEN 0
                             ELSE now - activity_detector.call_start_time]_vars

\* C23: should_start_recording() and should_stop_recording() change no field
\* of the detector.
C23_PredicatesPure ==
    [][det_call'.op \in {"should_start_recording", "should_stop_recording"}
       => activity_detector' = activity_detector]_vars

\* the position in its stream of a sample made by FrameOf
SampleIndex(v) == v % 50

\* data is a run of consecutive samples of one stream, each once, in order
Contiguous(data) ==
    \A i \in 1..(Len(data) - 1) : SampleIndex(data[i + 1]) = SampleIndex(data[i]) + 1

\* C24: whatever the interleaving of the capture callbacks with
\* _start_recording, the session data of each stream is a contiguous,
\* in-order run of the samples the stream delivered, each of them once.
C24_SessionContiguous ==
    /\ Contiguous(recording_mic_data)
    /\ Contiguous(recording_system_data)

SampleSet(data) == {SampleIndex(data[i]) : i \in DOMAIN data}

\* C26: the data of the session being recorded, pre-roll included, shares no
\* sample with the saved file of an earlier session of the same stream.
C26_NoAudioReused ==
    pc["mon"] # "sr_clear"
    => \A f \in files :
          f.name.ts # recording_start_time
          => SampleSet(f.data) \cap
                SampleSet(IF f.name.kind = "mic" THEN recording_mic_data
                          ELSE recording_system_data) = {}

\* the stream files of a session that are on disk
Originals(fs, session) ==
    {f \in fs : f.name \in {session.mic_file, session.system_file}}

\* the merged file of the item in hand is on disk with every frame of both
\* streams, or the uploader has removed it after uploading it
MergedComplete ==
    \/ /\ exists(files, worker.merged_file)
       /\ read_frames(files, worker.merged_file)
             = merged_frames(files, worker.session_data.mic_file,
                             worker.session_data.system_file)
    \/ /\ post_config.auto_delete
       /\ uploads # <<>>
       /\ uploads[Len(uploads)] = <<worker.merged_file, "ok">>

C28_NoMergedOverwrite ==
    [][(worker.pc = "merge" /\ worker'.pc = "upload")
       => ~exists(files, worker'.merged_file)]_vars

\* C25: whenever the engine is Stopping while monitoring goes on, it is
\* Monitoring again later (or monitoring has been stopped), also when saving
\* the session or a status notification raised.
C25_StoppingTransient ==
    (state = "stopping" /\ is_monitoring) ~> (state = "monitoring" \/ ~is_monitoring)

\* C29: the files of a session carry the call metadata that was in effect
\* when the session entered Recording, whatever set_call_info() stored
\* while the session was Recording or Stopping.
C29_MetadataAtStart ==
    [][\A f \in files' \ files :
          f.name = stream_filename(f.name[1], SessionStamp(recording_start_time),
                                   info_at_start)]_vars

\* C30: when _start_audio_streams() raises inside start_monitoring(), the
\* call leaves the engine Idle with is_monitoring false, no polling thread
\* and no capture stream running.
C30_FailedStartStopsStreams ==
    [][(pc["ctl"] = "start_streams" /\ pc'["ctl"] = "idle")
       => /\ state' = "idle"
          /\ ~is_monitoring'
          /\ pc'["mon"] \in {"none", "exited"}
          /\ ~mic_stream'
          /\ ~system_stream']_vars

====
